---- MODULE Spec2Model ----
(***************************************************************************)
(* Model of mutatio.py: the snapshot check of main() -- change detection   *)
(* on BUILDINFO, download into a temporary directory, signify verification *)
(* with one retry, comparison of bsd.rd with /bsd.rd, and the rotation of  *)
(* the previous/current/upgrade snapshot directories.                      *)
(***************************************************************************)
EXTENDS Integers, Sequences, FiniteSets, TLC

VARIABLES cache, upstream, slots, rootRd, downloads, last, gate, acq, det

vars == <<cache, upstream, slots, rootRd, downloads, last, gate, acq, det>>

(***************************************************************************)
(* Bounds of the model.                                                    *)
(***************************************************************************)
MaxRelease == 3
MaxDownloads == 3
NumMembers == 2
MaxPerLine == 2
MaxLines == 2
MaxTopics == 2
MaxDocLines == 2

Releases == 1..MaxRelease
Times == {1, 2}

(***************************************************************************)
(* Files and directories.                                                  *)
(***************************************************************************)
\* A document is the sequence of its lines, a line its text and the line
\* ending it carries.  A file is absent (NoFile) or holds one document.
LF == "\n"
CRLF == "\r\n"
Eols == {LF, CRLF}
Line(t, e) == [text |-> t, eol |-> e]
NoFile == << >>
File(doc) == << doc >>
BuildInfo(r) == << Line(r, LF) >>

\* f.writelines on a file opened with "w": the lines as they are
writelines(doc) == File(doc)

\* open(name, "r").readlines(): every line ending is read as "\n"
readlines(file) == [i \in 1..Len(file[1]) |-> Line(file[1][i].text, LF)]

\* context_diff of two documents joined: empty exactly when they are equal
NoChanges(previous, current) == previous = current
Absent == << >>
SlotNames == {"previous", "current", "upgrade"}
EmptySlots == [n \in SlotNames |-> Absent]

Exists(d) == d # Absent

\* The bsd.rd of release r as the mirror serves it: releases differ in one
\* byte, and some also in size.
RdBytes(r) == IF r % 3 = 0 THEN <<7, r, 0>> ELSE <<7, r>>

RdFiles == [bytes : {RdBytes(r) : r \in Releases}, mtime : Times]

\* A directory is the sequence of the snapshots it holds: the first one flat
\* in the directory itself (name "."), every further one in a subdirectory.
Flat(snap) == << [name |-> ".", snap |-> snap] >>

\* shutil.rmtree
rmtree(d) == Absent

\* shutil.move(src, dst) raises when src does not exist, or when dst is a
\* directory that already has an entry with the basename of src.
MoveRaises(src, base, dst) ==
    \/ ~Exists(src)
    \/ Exists(dst) /\ \E i \in 2..Len(dst) : dst[i].name = base

\* shutil.move(src, dst): a rename when dst does not exist, else src is
\* moved INSIDE the existing directory dst, under its own basename.
Move(src, base, dst) ==
    IF MoveRaises(src, base, dst) THEN dst
    ELSE IF ~Exists(dst) THEN src
    ELSE dst \o [i \in 1..Len(src) |-> [src[i] EXCEPT !.name = base]]

\* move(subdirectories[from], subdirectories[to])
MoveSlot(s, from, to) ==
    IF MoveRaises(s[from], from, s[to]) THEN s
    ELSE [s EXCEPT ![to] = Move(s[from], from, s[to]), ![from] = Absent]

(***************************************************************************)
(* get_update_info: status of the fetched document against the cache file, *)
(* and the cache file afterwards.                                          *)
(***************************************************************************)
get_update_info(cached, fetched) ==
    LET status == IF cached = NoFile THEN "bootstrap"
                  ELSE IF NoChanges(readlines(cached), fetched)
                       THEN "same" ELSE "new"
    IN  [status |-> status,
         cache  |-> IF status \in {"new", "bootstrap"}
                    THEN writelines(fetched) ELSE cached]

(***************************************************************************)
(* verify: one run of signify and the parse of its output.                 *)
(***************************************************************************)
\* A text is a sequence of lines, a line a sequence of tokens, a file name
\* the sequence of the tokens it is made of.
LParen == << "(" >>
RParen == << ")" >>
MemberFile(i) == << "member", i >>
SigFile == << << "SHA256.sig" >> >>

\* the line of SHA256.sig for member i: SHA256 (<member>) = <hash>
Entry(i) ==
    << <<"SHA256">>, LParen, MemberFile(i), RParen, <<"=">>, <<"hash", i>> >>

\* SHA256.sig as the mirror serves it: one line per member
ManifestText == [i \in 1..NumMembers |-> Entry(i)]

RECURSIVE Flatten(_)
Flatten(ss) == IF ss = << >> THEN << >> ELSE Head(ss) \o Flatten(Tail(ss))

\* findall("\((.*)\)", line): "." does not match a newline and ".*" is
\* greedy, so a line gives at most one match, from its first "(" to its
\* last ")".
findall_line(line) ==
    LET opens == { i \in 1..Len(line) : line[i] = LParen }
        closes == { i \in 1..Len(line) : line[i] = RParen }
    IN  IF opens = {} \/ closes = {} THEN << >>
        ELSE LET i == CHOOSE o \in opens : \A o2 \in opens : o <= o2
                 j == CHOOSE c \in closes : \A c2 \in closes : c >= c2
             IN  IF i < j THEN << SubSeq(line, i + 1, j - 1) >> ELSE << >>

findall(text) == Flatten([l \in 1..Len(text) |-> findall_line(text[l])])

\* the members SHA256.sig names, in its order
Manifest == findall(ManifestText)

Marks == {"OK", "FAIL"}
\* signify -C prints one line "<member>: OK" or "<member>: FAIL" per member
Outputs == { [i \in 1..NumMembers |-> [member |-> Manifest[i], mark |-> m[i]]] :
               m \in [1..NumMembers -> Marks] }
ToolRuns == [exit : {0, 1}, out : Outputs]

EndsWithFail(line) == line.mark = "FAIL"

FailedOf(out) ==
    LET f == SelectSeq(out, EndsWithFail)
    IN  [i \in 1..Len(f) |-> f[i].member]

verify(run) == [passed |-> run.exit = 0, failed |-> FailedOf(run.out)]

(***************************************************************************)
(* Events of the snapshot pipeline, in program order.                      *)
(***************************************************************************)
CoolDown == 300

\* download_snapshot: subdir = Path(directory, "snapshot")
StagingDir == "snapshot"
\* verify: os.chdir(snapshot); check_integrity fetches to a relative path
Cwd == StagingDir

\* get_binary(url of f, dir / f)
FetchEv(f, dir, ok) ==
    [op |-> "fetch", file |-> f, dir |-> dir, only |-> << >>, secs |-> 0,
     ok |-> ok]
\* signify -C -x SHA256.sig <filename>, filename = "": every member
VerifyEv ==
    [op |-> "verify", file |-> SigFile, dir |-> StagingDir, only |-> << >>,
     secs |-> 0, ok |-> TRUE]
SleepEv ==
    [op |-> "sleep", file |-> << >>, dir |-> "", only |-> << >>,
     secs |-> CoolDown, ok |-> TRUE]

\* get_binary over the files fs, the failAt-th of which fails (0: none).
\* A failed get_binary ends the process (sys.exit).
\* get_binary printing the error without ending the process
Fetches_NoExit(fs, dir, failAt) ==
    [exited |-> FALSE,
     events |-> [i \in 1..Len(fs) |-> FetchEv(fs[i], dir, i # failAt)]]

Fetches(fs, dir, failAt) ==
    LET n == IF failAt \in 1..Len(fs) THEN failAt ELSE Len(fs)
    IN  [exited |-> failAt \in 1..Len(fs),
         events |-> [i \in 1..n |-> FetchEv(fs[i], dir, i # failAt)]]

\* download_snapshot: the manifest, then every file findall gets from it
download_snapshot(text, failAt) ==
    Fetches(<<SigFile>> \o findall(text), StagingDir, failAt)

\* check_integrity retrying whenever the first verification did not pass,
\* instead of whenever it named failed members
check_integrity_RetryUnlessWhole(run1, run2, failAt) ==
    LET v1 == verify(run1)
        v2 == verify(run2)
        re == Fetches(v1.failed, Cwd, failAt)
    IN  IF v1.passed
        THEN [exited |-> FALSE, whole |-> v1.passed,
              events |-> <<VerifyEv>>, verdicts |-> <<v1>>]
        ELSE IF re.exited
        THEN [exited |-> TRUE, whole |-> FALSE,
              events |-> <<VerifyEv, SleepEv>> \o re.events,
              verdicts |-> <<v1>>]
        ELSE [exited |-> FALSE, whole |-> v2.passed,
              events |-> <<VerifyEv, SleepEv>> \o re.events \o <<VerifyEv>>,
              verdicts |-> <<v1, v2>>]

\* check_integrity fetching every member of the manifest again, instead of
\* the failed ones
check_integrity_RefetchAll(run1, run2, failAt) ==
    LET v1 == verify(run1)
        v2 == verify(run2)
        re == Fetches(Manifest, Cwd, failAt)
    IN  IF v1.failed = << >>
        THEN [exited |-> FALSE, whole |-> v1.passed,
              events |-> <<VerifyEv>>, verdicts |-> <<v1>>]
        ELSE IF re.exited
        THEN [exited |-> TRUE, whole |-> FALSE,
              events |-> <<VerifyEv, SleepEv>> \o re.events,
              verdicts |-> <<v1>>]
        ELSE [exited |-> FALSE, whole |-> v2.passed,
              events |-> <<VerifyEv, SleepEv>> \o re.events \o <<VerifyEv>>,
              verdicts |-> <<v1, v2>>]

\* check_integrity: verify, and if some members failed wait, fetch them
\* again and verify once more.
check_integrity(run1, run2, failAt) ==
    LET v1 == verify(run1)
    IN  IF v1.failed = << >>
        THEN [exited |-> FALSE, whole |-> v1.passed,
              events |-> <<VerifyEv>>, verdicts |-> <<v1>>]
        ELSE LET re == Fetches(v1.failed, Cwd, failAt)
                 v2 == verify(run2)
             IN  IF re.exited
                 THEN [exited |-> TRUE, whole |-> FALSE,
                       events |-> <<VerifyEv, SleepEv>> \o re.events,
                       verdicts |-> <<v1>>]
                 ELSE [exited |-> FALSE, whole |-> v2.passed,
                       events |-> <<VerifyEv, SleepEv>> \o re.events
                                    \o <<VerifyEv>>,
                       verdicts |-> <<v1, v2>>]

(***************************************************************************)
(* is_installed: filecmp.cmp(snapshot/bsd.rd, /bsd.rd), shallow by default *)
(***************************************************************************)
sig(f) == <<Len(f.bytes), f.mtime>>

cmp(f1, f2) ==
    IF sig(f1) = sig(f2) THEN TRUE
    ELSE IF Len(f1.bytes) # Len(f2.bytes) THEN FALSE
    ELSE f1.bytes = f2.bytes

is_installed(dir, root) == cmp(dir[1].snap.rd, root)

(***************************************************************************)
(* rotate                                                                  *)
(***************************************************************************)
\* rotate copying upgrade to current instead of moving it
rotate_CopyUpgrade(s) ==
    LET s1 == IF Exists(s["previous"])
              THEN [s EXCEPT !["previous"] = rmtree(s["previous"])] ELSE s
        s2 == IF Exists(s1["current"])
              THEN MoveSlot(s1, "current", "previous") ELSE s1
    IN  [s2 EXCEPT !["current"] = Move(s2["upgrade"], "upgrade", @)]

\* rotate removing current instead of moving it to previous
rotate_DropsCurrent(s) ==
    LET s1 == IF Exists(s["previous"])
              THEN [s EXCEPT !["previous"] = rmtree(s["previous"])] ELSE s
        s2 == IF Exists(s1["current"])
              THEN [s1 EXCEPT !["current"] = rmtree(s1["current"])] ELSE s1
    IN  MoveSlot(s2, "upgrade", "current")

\* rotate without the removal of previous
rotate_KeepsPrevious(s) ==
    LET s2 == IF Exists(s["current"])
              THEN MoveSlot(s, "current", "previous") ELSE s
    IN  MoveSlot(s2, "upgrade", "current")

\* the slots when the process is stopped after the first k steps of rotate
rotate_steps(s, k) ==
    LET s1 == IF k >= 1 /\ Exists(s["previous"])
              THEN [s EXCEPT !["previous"] = rmtree(s["previous"])] ELSE s
        s2 == IF k >= 2 /\ Exists(s1["current"])
              THEN MoveSlot(s1, "current", "previous") ELSE s1
    IN  IF k >= 3 THEN MoveSlot(s2, "upgrade", "current") ELSE s2

rotate(s) ==
    LET s1 == IF Exists(s["previous"])
              THEN [s EXCEPT !["previous"] = rmtree(s["previous"])] ELSE s
        s2 == IF Exists(s1["current"])
              THEN MoveSlot(s1, "current", "previous") ELSE s1
    IN  MoveSlot(s2, "upgrade", "current")

(***************************************************************************)
(* feedback                                                                *)
(***************************************************************************)
UpgradeAvailable ==
    [title |-> "OpenBSD Snapshot",
     body |-> "New Snapshot set available to upgrade.",
     urgency |-> "critical"]

(***************************************************************************)
(* The branches of main for the snapshot check.                            *)
(***************************************************************************)
\* with tempfile.TemporaryDirectory() as tmp: the directory and whatever is
\* still inside it are removed when the block is left, also by an exception
\* or by sys.exit.
TemporaryDirectoryExit(content) == rmtree(content)

\* download_snapshot followed by check_integrity, with the failAt-th
\* get_binary of the invocation failing (0: none fails)
Pipeline(run1, run2, failAt) ==
    LET dl == download_snapshot(ManifestText, failAt)
        nDl == 1 + Len(Manifest)
        ci == check_integrity(run1, run2,
                              IF failAt > nDl THEN failAt - nDl ELSE 0)
    IN  IF dl.exited
        THEN [exited |-> TRUE, intact |-> FALSE, events |-> dl.events,
              verdicts |-> << >>]
        ELSE [exited |-> ci.exited, intact |-> ci.whole,
              events |-> dl.events \o ci.events,
              verdicts |-> ci.verdicts]

\* the inputs of one run of the pipeline: what signify answers to the first
\* and to the second verification, and which get_binary fails
PipelineInputs ==
    [run1 : ToolRuns, run2 : ToolRuns, failAt : 0..(1 + 2 * NumMembers)]

\* the events that follow the first failed get_binary
AfterFailure(events) ==
    LET bad == { i \in 1..Len(events) : ~events[i].ok }
    IN  IF bad = {} THEN << >>
        ELSE SubSeq(events,
                    1 + (CHOOSE i \in bad : \A j \in bad : i <= j),
                    Len(events))

\* which get_binary failed: that of the manifest, of a member in
\* download_snapshot, or of a failed member in check_integrity
FailedStage(events) ==
    LET bad == { i \in 1..Len(events) : ~events[i].ok }
        first == CHOOSE i \in bad : \A j \in bad : i <= j
    IN  IF bad = {} THEN "none"
        ELSE IF first = 1 THEN "manifest"
        ELSE IF first <= 1 + Len(Manifest) THEN "member"
        ELSE "refetch"

\* what main sees of the pipeline: whether it ended the process, the value
\* check_integrity returned, and what happened around a failed transfer
Summary(p) ==
    [exited |-> p.exited, intact |-> p.intact,
     failedStage |-> FailedStage(p.events),
     afterFail |-> AfterFailure(p.events)]

PipelineOutcomes ==
    { Summary(Pipeline(i.run1, i.run2, i.failAt)) : i \in PipelineInputs }

\* bootstrap branch with the two destinations exchanged
BootstrapPlace_Swapped(intact, installed) ==
    IF intact THEN (IF installed THEN "upgrade" ELSE "current") ELSE "none"

\* bootstrap branch: the slot the snapshot is moved to
BootstrapPlace(intact, installed) ==
    IF intact THEN (IF installed THEN "current" ELSE "upgrade") ELSE "none"

\* new branch without the test of intact
NewPlace_Ungated(intact) == "upgrade"

\* new branch: whether the snapshot is moved to upgrade
NewPlace(intact) == IF intact THEN "upgrade" ELSE "none"

\* new branch without the removal of the old upgrade
NewUpgrade_NoDiscard(upgrade, staged) == Move(staged, "snapshot", upgrade)

\* new branch: the upgrade directory after the snapshot was moved to it
NewUpgrade(upgrade, staged) ==
    IF ~Exists(upgrade) THEN Move(staged, "snapshot", upgrade)
    ELSE Move(staged, "snapshot", rmtree(upgrade))

\* same branch without the test of is_installed
ShouldRotate_Unchecked(s, root) == Exists(s["upgrade"])

\* same branch: whether rotate is called
ShouldRotate(s, root) ==
    IF Exists(s["upgrade"]) THEN is_installed(s["upgrade"], root) ELSE FALSE

(***************************************************************************)
(* The loop of main over the requested topics. Of a topic the model keeps  *)
(* whether its check was carried out, not its document.                    *)
(***************************************************************************)
\* the keys of data in the order of vars(args), which is the order of the
\* add_argument calls
TopicOrder ==
    << "packages", "changelog", "errata", "events", "current",
       "innovations", "hackathons" >>
NoTopic == ""
Topics == { TopicOrder[i] : i \in 1..MaxTopics }
Requests == SUBSET Topics

\* the loop over the requested topics req when the get_document of topic
\* fail fails (NoTopic: none fails): get_document ends the process with
\* sys.exit(-2), so the topics after it are not checked
DocChecks(req, fail) ==
    LET pos(t) == CHOOSE i \in 1..Len(TopicOrder) : TopicOrder[i] = t
        done == IF fail \in req
                THEN { t \in req : pos(t) < pos(fail) } ELSE req
    IN  [exited |-> fail \in req, checked |-> done, unchecked |-> req \ done]

\* the requested topics left unchecked when no get_document fails, over
\* every request
LoopsDone == { DocChecks(req, NoTopic).unchecked : req \in Requests }

\* what an invocation leaves unchecked when a get_document fails, that of
\* a requested topic or that of BUILDINFO, over every request
LoopsFailed ==
    { [failedDoc |-> x[3], snapReq |-> x[2],
       unchecked |-> DocChecks(x[1], x[3]).unchecked] :
        x \in { y \in Requests \X BOOLEAN \X (Topics \cup {"snapshots"}) :
                  DocChecks(y[1], y[3]).exited
                    \/ (y[3] = "snapshots" /\ y[2]) } }

\* what an invocation that does nothing leaves behind
Quiet(status) ==
    [status |-> status, exited |-> FALSE, pre |-> slots,
     gated |-> FALSE, intact |-> FALSE,
     cmps |-> << >>, rotated |-> FALSE, placed |-> "none",
     feedback |-> << >>, tmp |-> Absent, snap |-> Absent,
     unchecked |-> {}, failedDoc |-> NoTopic,
     snapReq |-> TRUE, snapChecked |-> TRUE,
     failedStage |-> "none", afterFail |-> << >>,
     resumed |-> << >>]

Cmp(dir, root) ==
    << [a |-> dir[1].snap.rd, b |-> root, result |-> is_installed(dir, root)] >>

Staged(t, intact) ==
    Flat([id |-> downloads + 1, rel |-> upstream,
          rd |-> [bytes |-> RdBytes(upstream), mtime |-> t],
          intact |-> intact])

\* the pipeline has not been run
GateIdle == [ran |-> FALSE]
AcqIdle == [ran |-> FALSE]
DetIdle == [ran |-> FALSE]

TypeOK ==
    /\ cache \in {NoFile} \cup {File(BuildInfo(r)) : r \in Releases}
    /\ upstream \in Releases
    /\ rootRd \in RdFiles
    /\ downloads \in 0..MaxDownloads
    /\ DOMAIN slots = SlotNames

Init ==
    /\ cache = NoFile
    /\ upstream \in Releases
    /\ slots = EmptySlots
    /\ rootRd \in RdFiles
    /\ downloads = 0
    /\ last = [status |-> "none", exited |-> FALSE, pre |-> EmptySlots,
               gated |-> FALSE, intact |-> FALSE, cmps |-> << >>,
               rotated |-> FALSE, placed |-> "none", feedback |-> << >>,
               tmp |-> Absent, snap |-> Absent,
               unchecked |-> {}, failedDoc |-> NoTopic,
               snapReq |-> FALSE, snapChecked |-> FALSE,
               failedStage |-> "none", afterFail |-> << >>,
     resumed |-> << >>]
    /\ gate = GateIdle
    /\ acq = AcqIdle
    /\ det = DetIdle

\* a get_document fails, that of a requested topic or, after the topics,
\* that of BUILDINFO: sys.exit(-2) before any slot is touched
MainFetchFail ==
    /\ \E f \in LoopsFailed :
         last' = [Quiet("fetchfail") EXCEPT
                    !.exited = TRUE, !.failedDoc = f.failedDoc,
                    !.unchecked = f.unchecked,
                    !.snapReq = f.snapReq, !.snapChecked = FALSE]
    /\ UNCHANGED <<cache, upstream, slots, rootRd, downloads, gate, acq, det>>

\* no snapshot check is requested and every requested topic is checked
MainDocsOnly ==
    /\ \E unchecked \in LoopsDone :
         last' = [Quiet("docs") EXCEPT
                    !.unchecked = unchecked,
                    !.snapReq = FALSE, !.snapChecked = FALSE]
    /\ UNCHANGED <<cache, upstream, slots, rootRd, downloads, gate, acq, det>>

\* the record of a pipeline that was run on the staged snapshot
Ran(status, p, staged) ==
    [Quiet(status) EXCEPT
       !.exited = p.exited, !.gated = ~p.exited,
       !.intact = p.intact, !.snap = staged,
       !.failedStage = p.failedStage, !.afterFail = p.afterFail]

MainBootstrap ==
    /\ get_update_info(cache, BuildInfo(upstream)).status = "bootstrap"
    /\ downloads < MaxDownloads
    /\ \E p \in PipelineOutcomes, t \in Times, unchecked \in LoopsDone :
         LET staged == Staged(t, p.intact)
             installed == IF p.exited THEN FALSE
                          ELSE is_installed(staged, rootRd)
             place == IF p.exited THEN "none"
                      ELSE BootstrapPlace(p.intact, installed)
             moved == place # "none"
                        /\ ~MoveRaises(staged, "snapshot", slots[place])
             tmp == IF moved THEN Absent ELSE staged
         IN  /\ slots' = IF moved
                         THEN [slots EXCEPT
                                 ![place] = Move(staged, "snapshot", @)]
                         ELSE slots
             /\ last' = [Ran("bootstrap", p, staged) EXCEPT
                           !.unchecked = unchecked,
                           !.cmps = IF ~p.exited /\ p.intact
                                    THEN Cmp(staged, rootRd) ELSE << >>,
                           !.placed = IF moved THEN place ELSE "none",
                           !.feedback = IF moved /\ place = "upgrade"
                                        THEN <<UpgradeAvailable>> ELSE << >>,
                           !.tmp = TemporaryDirectoryExit(tmp)]
    /\ cache' = get_update_info(cache, BuildInfo(upstream)).cache
    /\ downloads' = downloads + 1
    /\ UNCHANGED <<upstream, rootRd, gate, acq, det>>

MainSame ==
    /\ get_update_info(cache, BuildInfo(upstream)).status = "same"
    /\ \E unchecked \in LoopsDone :
       LET doRotate == ShouldRotate(slots, rootRd)
       IN  /\ slots' = IF doRotate THEN rotate(slots) ELSE slots
           /\ last' = [Quiet("same") EXCEPT
                         !.resumed = IF last.status = "interrupted"
                                     THEN << last.pre >> ELSE << >>,
                         !.unchecked = unchecked,
                         !.cmps = IF Exists(slots["upgrade"])
                                  THEN Cmp(slots["upgrade"], rootRd)
                                  ELSE << >>,
                         !.rotated = doRotate]
    /\ cache' = get_update_info(cache, BuildInfo(upstream)).cache
    /\ UNCHANGED <<upstream, rootRd, downloads, gate, acq, det>>

MainNew ==
    /\ get_update_info(cache, BuildInfo(upstream)).status = "new"
    /\ downloads < MaxDownloads
    /\ \E p \in PipelineOutcomes, t \in Times, unchecked \in LoopsDone :
         LET staged == Staged(t, p.intact)
             place == IF p.exited THEN "none" ELSE NewPlace(p.intact)
             upgrade == NewUpgrade(slots["upgrade"], staged)
             moved == place # "none" /\ upgrade # slots["upgrade"]
             tmp == IF moved THEN Absent ELSE staged
         IN  /\ slots' = IF place # "none"
                         THEN [slots EXCEPT !["upgrade"] = upgrade]
                         ELSE slots
             /\ last' = [Ran("new", p, staged) EXCEPT
                           !.unchecked = unchecked,
                           !.placed = IF moved THEN place ELSE "none",
                           !.feedback = IF moved
                                        THEN <<UpgradeAvailable>> ELSE << >>,
                           !.tmp = TemporaryDirectoryExit(tmp)]
    /\ cache' = get_update_info(cache, BuildInfo(upstream)).cache
    /\ downloads' = downloads + 1
    /\ UNCHANGED <<upstream, rootRd, gate, acq, det>>

(***************************************************************************)
(* The environment: the mirror publishes another snapshot; the             *)
(* administrator installs a release, which replaces /bsd.rd.               *)
(***************************************************************************)
MirrorPublishes ==
    /\ \E r \in Releases \ {upstream} : upstream' = r
    /\ UNCHANGED <<cache, slots, rootRd, downloads, last, gate, acq, det>>

Install ==
    /\ \E f \in RdFiles \ {rootRd} : rootRd' = f
    /\ UNCHANGED <<cache, upstream, slots, downloads, last, gate, acq, det>>

Next ==
    \/ MainFetchFail
    \/ MainDocsOnly
    \/ MainBootstrap
    \/ MainSame
    \/ MainNew
    \/ MirrorPublishes
    \/ Install

Spec == Init /\ [][Next]_vars

(***************************************************************************)
(* The same program when the process can be stopped inside rotate.         *)
(***************************************************************************)
RotateSteps == {0, 1, 2, 3}

\* status same and the upgrade installed: rotate is called and the process
\* is stopped after k of its steps
MainSameInterrupted ==
    /\ get_update_info(cache, BuildInfo(upstream)).status = "same"
    /\ ShouldRotate(slots, rootRd)
    /\ \E k \in RotateSteps :
         /\ slots' = rotate_steps(slots, k)
         /\ last' = [Quiet("interrupted") EXCEPT
                       !.cmps = Cmp(slots["upgrade"], rootRd),
                       !.exited = TRUE]
    /\ cache' = get_update_info(cache, BuildInfo(upstream)).cache
    /\ UNCHANGED <<upstream, rootRd, downloads, gate, acq, det>>

CrashNext == Next \/ MainSameInterrupted

CrashSpec == Init /\ [][CrashNext]_vars

(***************************************************************************)
(* The snapshot pipeline on its own: download_snapshot and check_integrity *)
(* applied to every verifier behaviour and every failing transfer.         *)
(***************************************************************************)
RunPipeline ==
    /\ \E i \in PipelineInputs :
         gate' = [ran |-> TRUE, run1 |-> i.run1, run2 |-> i.run2,
                  failAt |-> i.failAt,
                  v1 |-> verify(i.run1), v2 |-> verify(i.run2),
                  out |-> Pipeline(i.run1, i.run2, i.failAt)]
    /\ UNCHANGED <<cache, upstream, slots, rootRd, downloads, last, acq, det>>

GateNext == RunPipeline

GateInit ==
    /\ Init
    /\ upstream = MaxRelease
    /\ rootRd = [bytes |-> RdBytes(MaxRelease), mtime |-> CHOOSE t \in Times : TRUE]

GateSpec == GateInit /\ [][GateNext]_vars

(***************************************************************************)
(* download_snapshot on its own, over manifest texts with any number of    *)
(* entries on a line.                                                      *)
(***************************************************************************)
ManifestLines ==
    UNION { { Flatten([j \in 1..k |-> Entry(f[j])]) :
                f \in [1..k -> 1..NumMembers] } : k \in 0..MaxPerLine }

ManifestTexts == UNION { [1..n -> ManifestLines] : n \in 0..MaxLines }

RunDownload ==
    /\ ~acq.ran
    /\ \E text \in ManifestTexts, failAt \in 0..(1 + MaxPerLine) :
         acq' = [ran |-> TRUE, text |-> text, failAt |-> failAt,
                 out |-> download_snapshot(text, failAt)]
    /\ UNCHANGED <<cache, upstream, slots, rootRd, downloads, last, gate, det>>

AcquireNext == RunDownload

AcquireSpec == GateInit /\ [][AcquireNext]_vars

(***************************************************************************)
(* get_update_info on its own: two calls in a row against the same fetched *)
(* document, from any cache file.                                          *)
(***************************************************************************)
Lines == {Line(t, e) : t \in Releases, e \in Eols}

Documents == UNION { [1..n -> Lines] : n \in 0..MaxDocLines }

CacheFiles == {NoFile} \cup {File(d) : d \in Documents}

RunDetect ==
    /\ ~det.ran
    /\ \E cached \in CacheFiles, fetched \in Documents :
         LET first == get_update_info(cached, fetched)
         IN  det' = [ran |-> TRUE, cached |-> cached, fetched |-> fetched,
                     first |-> first,
                     second |-> get_update_info(first.cache, fetched)]
    /\ UNCHANGED <<cache, upstream, slots, rootRd, downloads, last, gate, acq>>

DetectNext == RunDetect

DetectSpec == GateInit /\ [][DetectNext]_vars

(***************************************************************************)
(* Properties.                                                             *)
(***************************************************************************)
\* the ids of the snapshots a directory holds, and those held by any slot
IdsIn(d) == { d[i].snap.id : i \in 1..Len(d) }
IdsInSlots(s) == UNION { IdsIn(s[n]) : n \in SlotNames }

NumOps(events, op) == Len(SelectSeq(events, LAMBDA e : e.op = op))

\* the events of check_integrity: those after the download's fetches
GateEvents(out) ==
    SubSeq(out.events, 2 + Len(Manifest), Len(out.events))

\* C1: in the bootstrap and new branches, when check_integrity returns
\* false no slot changes, the staged snapshot and its temporary directory
\* are gone and no feedback is emitted; every snapshot in a slot was
\* reported intact by the check_integrity of the invocation that placed it.
C1_NeverPromoteNonIntact ==
    /\ (last.status \in {"bootstrap", "new"} /\ last.gated /\ ~last.intact)
         => /\ slots = last.pre
            /\ last.placed = "none"
            /\ last.tmp = Absent
            /\ last.snap[1].snap.id \notin IdsInSlots(slots)
            /\ last.feedback = << >>
    /\ \A n \in SlotNames : \A i \in 1..Len(slots[n]) : slots[n][i].snap.intact

C1_Witness ==
    /\ last.status = "new" /\ last.gated /\ ~last.intact
    /\ Exists(slots["upgrade"])

\* C2: verify returns passed = true iff signify's exit status is success and
\* no output line ends in FAIL; check_integrity never reports intact while
\* the last verification named a failed member.
C2_PassedIffExitAndNoFail ==
    gate.ran =>
      /\ gate.v1.passed <=> (gate.run1.exit = 0 /\ FailedOf(gate.run1.out) = << >>)
      /\ (~gate.out.exited /\ gate.out.intact)
           => gate.out.verdicts[Len(gate.out.verdicts)].failed = << >>

\* C3: check_integrity runs verify at most twice and waits at most once,
\* 300 seconds; a first verification naming failed members followed by a
\* passing one gives true after 2 verifications and 1 wait; two failing
\* verifications give false after 2 verifications; a first verification
\* naming no failed member is the only one, without a wait.
C3_RetriesAtMostOnce ==
    (gate.ran /\ gate.out.verdicts # << >>) =>
      LET ev == GateEvents(gate.out)
          verifies == NumOps(ev, "verify")
          waits == NumOps(ev, "sleep")
          returned == ~gate.out.exited
      IN  /\ verifies <= 2 /\ waits <= 1
          /\ verifies = Len(gate.out.verdicts)
          /\ \A i \in 1..Len(ev) : ev[i].op = "sleep" => ev[i].secs = 300
          /\ (returned /\ gate.v1.failed # << >> /\ gate.v2.passed)
               => gate.out.intact /\ verifies = 2 /\ waits = 1
          /\ (returned /\ gate.v1.failed # << >> /\ ~gate.v2.passed)
               => ~gate.out.intact /\ verifies = 2
          /\ gate.v1.failed = << >>
               => returned /\ verifies = 1 /\ waits = 0
                    /\ gate.out.intact = gate.v1.passed

C3_Witness ==
    /\ gate.ran /\ ~gate.out.exited
    /\ gate.v1.failed # << >> /\ ~gate.v1.passed
    /\ gate.v2.passed /\ gate.out.intact
    /\ Len(gate.out.verdicts) = 2

\* C4: when rotate runs with upgrade and current present, afterwards upgrade
\* is empty, current is the old upgrade, previous is the old current and
\* the old previous is in no slot; previous may have been absent.
C4_RotatePostState ==
    (last.rotated /\ Exists(last.pre["upgrade"]) /\ Exists(last.pre["current"]))
      => /\ ~Exists(slots["upgrade"])
         /\ slots["current"] = last.pre["upgrade"]
         /\ slots["previous"] = last.pre["current"]
         /\ IdsIn(last.pre["previous"]) \cap IdsInSlots(slots) = {}

C4_Witness ==
    /\ last.rotated
    /\ Exists(last.pre["current"]) /\ Exists(last.pre["previous"])
    /\ slots["previous"] = last.pre["current"]

\* C5 as stated: after every rotation previous is occupied and holds what
\* was current before it.
C5_PreviousAlwaysOccupied ==
    last.rotated => Exists(slots["previous"]) /\ slots["previous"] = last.pre["current"]

\* C5 amended: after every rotation previous holds what current held before
\* it: the old current when there was one, nothing when current was absent.
C5_PreviousIsOldCurrent ==
    last.rotated =>
      /\ Exists(last.pre["current"])
           => Exists(slots["previous"]) /\ slots["previous"] = last.pre["current"]
      /\ ~Exists(last.pre["current"]) => ~Exists(slots["previous"])

C5_Witness ==
    /\ last.rotated /\ ~Exists(last.pre["current"])
    /\ slots["current"] = last.pre["upgrade"]

\* C6: with status same, rotate is called iff upgrade exists and
\* is_installed(upgrade) is true; otherwise the slots are unchanged, nothing
\* is downloaded and no feedback is emitted.
C6_SameBranch ==
    last.status = "same" =>
      /\ last.rotated <=>
           (Exists(last.pre["upgrade"]) /\ last.cmps # << >>
              /\ last.cmps[1].a = last.pre["upgrade"][1].snap.rd
              /\ last.cmps[1].result)
      /\ last.rotated => Exists(last.pre["upgrade"])
      /\ ~last.rotated => slots = last.pre
      /\ last.snap = Absent /\ last.feedback = << >>

C6_Witness ==
    /\ last.status = "same" /\ ~last.rotated
    /\ Exists(last.pre["upgrade"]) /\ ~last.cmps[1].result

\* C7: with status bootstrap and an intact snapshot, the snapshot becomes
\* current without feedback when is_installed holds, and becomes upgrade
\* with the critical notification otherwise; the other slots are untouched.
C7_BootstrapBranch ==
    (last.status = "bootstrap" /\ last.gated /\ last.intact) =>
      /\ last.cmps # << >>
      /\ last.cmps[1].result
           => /\ slots["current"] = last.snap
              /\ slots["upgrade"] = last.pre["upgrade"]
              /\ slots["previous"] = last.pre["previous"]
              /\ last.feedback = << >>
      /\ ~last.cmps[1].result
           => /\ slots["upgrade"] = last.snap
              /\ slots["current"] = last.pre["current"]
              /\ slots["previous"] = last.pre["previous"]
              /\ last.feedback = <<UpgradeAvailable>>
              /\ last.feedback[1].urgency = "critical"

C7_Witness ==
    /\ last.status = "bootstrap" /\ last.gated /\ last.intact
    /\ last.cmps[1].result /\ slots["current"] = last.snap

\* C8: with status new and an intact snapshot, upgrade holds exactly the new
\* snapshot, the old upgrade is nowhere, current and previous are unchanged
\* and the critical notification is emitted.
C8_NewBranch ==
    (last.status = "new" /\ last.gated /\ last.intact) =>
      /\ slots["upgrade"] = last.snap
      /\ IdsIn(last.pre["upgrade"]) \cap IdsInSlots(slots) = {}
      /\ slots["current"] = last.pre["current"]
      /\ slots["previous"] = last.pre["previous"]
      /\ last.feedback = <<UpgradeAvailable>>
      /\ last.feedback[1].urgency = "critical"

C8_Witness ==
    /\ last.status = "new" /\ last.gated /\ last.intact
    /\ Exists(last.pre["upgrade"]) /\ slots["upgrade"] = last.snap

\* C9: every slot is absent or holds one snapshot flat in its directory.
C9_SlotsFlat ==
    \A n \in SlotNames :
      Exists(slots[n]) => Len(slots[n]) = 1 /\ slots[n][1].name = "."

C9_Witness ==
    /\ \A n \in SlotNames : Exists(slots[n])
    /\ Cardinality(IdsInSlots(slots)) = 3

\* C10: is_installed is true iff the two bsd.rd files have the same bytes.
C10_ByteIdentical ==
    \A i \in 1..Len(last.cmps) :
      last.cmps[i].result <=> (last.cmps[i].a.bytes = last.cmps[i].b.bytes)

\* the file names a line has between a "(" and the next ")"
ParenthesizedOfLine(line) ==
    LET idx == SelectSeq([i \in 1..Len(line) |-> i],
                         LAMBDA i : /\ line[i] = LParen
                                    /\ i + 2 <= Len(line)
                                    /\ line[i + 2] = RParen)
    IN  [k \in 1..Len(idx) |-> << line[idx[k] + 1] >>]

Parenthesized(text) ==
    Flatten([l \in 1..Len(text) |-> ParenthesizedOfLine(text[l])])

\* C11: download_snapshot fetches the manifest and then one file per
\* parenthesized file name of the manifest text, in order of appearance,
\* duplicates included, all into the staging subdirectory.
C11_FetchesEveryParenthesizedName ==
    (acq.ran /\ ~acq.out.exited) =>
      LET names == Parenthesized(acq.text)
      IN  acq.out.events =
            <<FetchEv(SigFile, StagingDir, TRUE)>> \o
            [i \in 1..Len(names) |-> FetchEv(names[i], StagingDir, TRUE)]

\* C12: when the fetch of one requested topic's document fails, the other
\* requested topics, and the snapshot check if requested, are still
\* checked in that invocation.
C12_TopicFailureIsolated ==
    (last.status = "fetchfail" /\ last.failedDoc \in Topics) =>
      /\ last.unchecked \subseteq {last.failedDoc}
      /\ last.snapReq => last.snapChecked

\* a get_binary of the snapshot pipeline failed in the last invocation
TransferFailed == last.failedStage \in {"manifest", "member", "refetch"}

\* C13: a failed transfer in the snapshot pipeline ends the pipeline: no
\* fetch or verification follows it, the slots are unchanged, the staging
\* directory is removed, nothing is announced, and every requested topic
\* has been checked.
C13_TransferFailureAbortsPipeline ==
    (last.status \in {"bootstrap", "new"} /\ TransferFailed) =>
      /\ last.exited /\ ~last.gated
      /\ last.afterFail = << >>
      /\ slots = last.pre
      /\ last.placed = "none"
      /\ last.tmp = Absent
      /\ last.feedback = << >>
      /\ last.unchecked = {}

C13_Witness ==
    /\ last.status = "new" /\ last.failedStage = "refetch" /\ last.exited
    /\ Exists(slots["upgrade"]) /\ slots = last.pre

\* C14: when rotate was stopped after some of its steps, the next
\* invocation with status same and the upgrade running ends with the slots
\* of an uninterrupted rotation: current the old upgrade, previous the old
\* current, upgrade empty; the old current is not lost.
C14_InterruptedRotationCompletes ==
    (/\ last.status = "same" /\ last.resumed # << >>
     /\ last.rotated \/ ~Exists(last.pre["upgrade"])) =>
      LET old == last.resumed[1]
      IN  /\ slots["current"] = old["upgrade"]
          /\ slots["previous"] = old["current"]
          /\ ~Exists(slots["upgrade"])
          /\ IdsIn(old["current"]) \subseteq IdsInSlots(slots)

\* C15: after a bootstrap or new invocation whose snapshot was discarded
\* because check_integrity returned false, the next invocation against the
\* same upstream release acquires the snapshot again, that is, its status
\* is not same.
C15_DiscardedSnapshotAcquiredAgain ==
    (/\ last.status \in {"bootstrap", "new"} /\ last.gated /\ ~last.intact
     /\ upstream = last.snap[1].snap.rel) =>
      get_update_info(cache, BuildInfo(upstream)).status
        \in {"bootstrap", "new"}

\* C16: when the first verification names failed members, check_integrity
\* waits, then fetches exactly these members again, once each, in the order
\* of the verifier's output, into the snapshot directory, then verifies once
\* more over every member, and returns the verdict of that verification.
C16_RetryOrder ==
    (gate.ran /\ gate.out.verdicts # << >> /\ gate.v1.failed # << >>) =>
      LET ev == GateEvents(gate.out)
          failed == gate.v1.failed
          n == IF gate.out.exited THEN Len(ev) - 2 ELSE Len(failed)
      IN  /\ Len(ev) >= 3
          /\ ev[1] = VerifyEv /\ ev[2] = SleepEv
          /\ n \in 1..Len(failed)
          /\ \A i \in 1..n :
               /\ ev[2 + i].op = "fetch"
               /\ ev[2 + i].file = failed[i]
               /\ ev[2 + i].dir = StagingDir
          /\ \A i \in 1..Len(failed) : \A j \in 1..Len(failed) :
               failed[i] = failed[j] => i = j
          /\ gate.out.exited => Len(ev) = 2 + n /\ ~ev[Len(ev)].ok
          /\ ~gate.out.exited =>
               /\ Len(ev) = Len(failed) + 3
               /\ ev[Len(ev)].op = "verify"
               /\ ev[Len(ev)].file = SigFile /\ ev[Len(ev)].only = << >>
               /\ Len(gate.out.verdicts) = 2
               /\ gate.out.intact = gate.v2.passed

C16_Witness ==
    /\ gate.ran /\ ~gate.out.exited
    /\ Len(gate.v1.failed) = 2 /\ Len(gate.out.verdicts) = 2
    /\ gate.out.intact # gate.v1.passed

\* C17: get_update_info returns bootstrap iff there is no cache file, same
\* iff the cache file exists and holds the fetched document, new otherwise;
\* it rewrites the cache with the fetched document exactly on bootstrap and
\* new and leaves it untouched on same; after the call the cache holds the
\* fetched document, and a second call with the same fetched document
\* returns same.
C17_StatusAndCache ==
    det.ran =>
      /\ det.first.status = "bootstrap" <=> det.cached = NoFile
      /\ det.first.status = "same" <=>
            (det.cached # NoFile /\ det.cached = File(det.fetched))
      /\ det.first.status = "new" <=>
            (det.cached # NoFile /\ det.cached # File(det.fetched))
      /\ det.first.status = "same" => det.first.cache = det.cached
      /\ det.first.cache = File(det.fetched)
      /\ det.second.status = "same"

====
